---- MODULE Spec2Model ----
(***************************************************************************)
(* State-machine model of lib/commands/general.js of the XCUITest driver:  *)
(* background, getDeviceTime, getViewportRect, mobilePressButton and       *)
(* mobileSiriCommand, together with the JavaScript coercions they rely on. *)
(*                                                                         *)
(* JavaScript values are records [t, n, s]: t is the type tag, n the       *)
(* numeric value in thousandths (so that the division by 1000.0 of the     *)
(* millisecond timeout is exact), s the characters of a string.            *)
(***************************************************************************)
EXTENDS Integers, Sequences, FiniteSets, TLC

\* ------------------------------------------------------------------ bounds
\* bare numbers passed to background range over -MaxSeconds..MaxSeconds
MaxSeconds == 3
\* logical window width/height and status bar sizes range up to MaxLogical
MaxLogical == 2

\* ------------------------------------------------------- program constants
\* the divisor applied to an object's timeout field (milliseconds)
MsPerSecond == 1000
\* the documented example {timeout: 5000}
DocTimeoutMs == 5000

\* -------------------------------------------------------- JavaScript values
JsUndefined == [t |-> "undefined", n |-> 0, s |-> << >>]
JsNull == [t |-> "null", n |-> 0, s |-> << >>]
JsNaN == [t |-> "NaN", n |-> 0, s |-> << >>]
\* the number whose value is m thousandths
JsMilli(m) == [t |-> "number", n |-> m, s |-> << >>]
\* the integer number k
JsInt(k) == JsMilli(k * 1000)
JsString(chars) == [t |-> "string", n |-> 0, s |-> chars]

\* a bare argument, and an object literal {timeout: v}
Bare(v) == [t |-> v.t, n |-> v.n, s |-> v.s, hasTimeout |-> FALSE, timeout |-> JsUndefined]
WithTimeout(v) == [t |-> "object", n |-> 0, s |-> << >>, hasTimeout |-> TRUE, timeout |-> v]
\* an object literal without a timeout field: {}
EmptyObject == [t |-> "object", n |-> 0, s |-> << >>, hasTimeout |-> FALSE, timeout |-> JsUndefined]

DigitChars == <<"0", "1", "2", "3", "4", "5", "6", "7", "8", "9">>
IsDigit(c) == \E i \in 1..Len(DigitChars) : DigitChars[i] = c
DigitVal(c) == (CHOOSE i \in 1..Len(DigitChars) : DigitChars[i] = c) - 1
WhiteSpace == {" ", "\n"}

Abs(x) == IF x < 0 THEN -x ELSE x

RECURSIVE SkipWhiteSpace(_)
SkipWhiteSpace(s) ==
    IF s # << >> /\ Head(s) \in WhiteSpace THEN SkipWhiteSpace(Tail(s)) ELSE s

RECURSIVE DropTrailingWhiteSpace(_)
DropTrailingWhiteSpace(s) ==
    IF s # << >> /\ s[Len(s)] \in WhiteSpace
    THEN DropTrailingWhiteSpace(SubSeq(s, 1, Len(s) - 1))
    ELSE s

\* String.prototype.trim
Trim(s) == DropTrailingWhiteSpace(SkipWhiteSpace(s))

\* length of the longest prefix of s made of decimal digits
RECURSIVE DigitRun(_)
DigitRun(s) ==
    IF s # << >> /\ IsDigit(Head(s)) THEN 1 + DigitRun(Tail(s)) ELSE 0

RECURSIVE DigitsValue(_)
DigitsValue(d) ==
    IF d = << >> THEN 0
    ELSE 10 * DigitsValue(SubSeq(d, 1, Len(d) - 1)) + DigitVal(d[Len(d)])

\* the first three fraction digits as thousandths
FractionMilli(d) ==
    LET p == SubSeq(d \o <<"0", "0", "0">>, 1, 3) IN DigitsValue(p)

\* the longest prefix of s of the form [+-] digits [. digits]
ScanDecimal(s) ==
    LET signed == s # << >> /\ Head(s) \in {"-", "+"}
        neg == signed /\ Head(s) = "-"
        s1 == IF signed THEN Tail(s) ELSE s
        ni == DigitRun(s1)
        s2 == SubSeq(s1, ni + 1, Len(s1))
        dot == s2 # << >> /\ Head(s2) = "."
        nf == IF dot THEN DigitRun(Tail(s2)) ELSE 0
        mag == DigitsValue(SubSeq(s1, 1, ni)) * 1000
               + (IF dot THEN FractionMilli(SubSeq(s2, 2, nf + 1)) ELSE 0)
    IN [hasDigits |-> ni + nf > 0,
        len |-> (IF signed THEN 1 ELSE 0) + ni + (IF dot /\ ni + nf > 0 THEN 1 + nf ELSE 0),
        milli |-> IF neg THEN -mag ELSE mag]

\* parseFloat applied to a string
ParseFloatString(s) ==
    LET r == ScanDecimal(SkipWhiteSpace(s))
    IN IF r.hasDigits THEN JsMilli(r.milli) ELSE JsNaN

\* Number applied to a string
StringToNumber(s) ==
    LET tr == Trim(s)
        r == ScanDecimal(tr)
    IN IF tr = << >> THEN JsMilli(0)
       ELSE IF r.hasDigits /\ r.len = Len(tr) THEN JsMilli(r.milli)
       ELSE JsNaN

RECURSIVE NatToString(_)
NatToString(k) ==
    IF k < 10 THEN <<DigitChars[k + 1]>>
    ELSE NatToString(k \div 10) \o <<DigitChars[(k % 10) + 1]>>

RECURSIVE DropTrailingZeros(_)
DropTrailingZeros(d) ==
    IF d # << >> /\ d[Len(d)] = "0" THEN DropTrailingZeros(SubSeq(d, 1, Len(d) - 1)) ELSE d

\* String applied to a number of m thousandths
NumberToString(m) ==
    LET a == Abs(m)
        fp == a % 1000
        frac == DropTrailingZeros(<<DigitChars[(fp \div 100) + 1],
                                    DigitChars[((fp \div 10) % 10) + 1],
                                    DigitChars[(fp % 10) + 1]>>)
    IN (IF m < 0 THEN <<"-">> ELSE << >>)
       \o NatToString(a \div 1000)
       \o (IF fp = 0 THEN << >> ELSE <<".">> \o frac)

\* String(v)
JsToString(v) ==
    CASE v.t = "undefined" -> <<"u", "n", "d", "e", "f", "i", "n", "e", "d">>
      [] v.t = "null" -> <<"n", "u", "l", "l">>
      [] v.t = "NaN" -> <<"N", "a", "N">>
      [] v.t = "number" -> NumberToString(v.n)
      [] v.t = "string" -> v.s
      [] v.t = "object" -> <<"[", "o", "b", "j", "e", "c", "t", " ", "O", "b", "j", "e", "c", "t", "]">>

\* Number(v)
ToNumber(v) ==
    CASE v.t = "undefined" -> JsNaN
      [] v.t = "null" -> JsMilli(0)
      [] v.t = "NaN" -> JsNaN
      [] v.t = "number" -> JsMilli(v.n)
      [] v.t = "string" -> StringToNumber(v.s)
      [] v.t = "object" -> JsNaN

\* the global isNaN
isNaN(v) == ToNumber(v).t = "NaN"

\* the global parseFloat: parses String(v)
parseFloat(v) == ParseFloatString(JsToString(v))

\* _.isNumber
isNumber(v) == v.t \in {"number", "NaN"}

\* _.isNil
isNil(v) == v.t \in {"undefined", "null"}

\* util.hasValue
hasValue(v) == IF isNumber(v) THEN v.t # "NaN" ELSE ~isNil(v)

\* JavaScript truthiness
Truthy(v) ==
    CASE v.t \in {"undefined", "null", "NaN"} -> FALSE
      [] v.t = "number" -> v.n # 0
      [] v.t = "string" -> v.s # << >>
      [] v.t = "object" -> TRUE

\* x / 1000.0 ; exact on the integers the model feeds it
DivideBy1000(v) == IF v.t = "number" THEN JsMilli(v.n \div MsPerSecond) ELSE JsNaN

\* ---------------------------------------------------------------- background
homescreen == "/wda/homescreen"
deactivateApp == "/wda/deactivateApp"
NoEndpoint == "undefined"

NoParams == [keys |-> {}, duration |-> JsUndefined, name |-> JsUndefined, text |-> JsUndefined]
DurationParams(d) == [NoParams EXCEPT !.keys = {"duration"}, !.duration = d]

selectEndpoint_StrictlyPositive(timeoutSeconds) ==
    IF ~hasValue(timeoutSeconds)
    THEN [endpoint |-> homescreen, params |-> NoParams]
    ELSE IF ~isNaN(timeoutSeconds)
    THEN LET duration == parseFloat(timeoutSeconds)
         IN IF duration.t = "number" /\ duration.n > 0
            THEN [endpoint |-> deactivateApp, params |-> DurationParams(duration)]
            ELSE [endpoint |-> homescreen, params |-> NoParams]
    ELSE [endpoint |-> NoEndpoint, params |-> NoParams]

selectEndpoint_FailOpen(timeoutSeconds) ==
    IF ~hasValue(timeoutSeconds)
    THEN [endpoint |-> homescreen, params |-> NoParams]
    ELSE LET duration == parseFloat(timeoutSeconds)
         IN IF ~isNaN(timeoutSeconds) /\ duration.t = "number" /\ duration.n >= 0
            THEN [endpoint |-> deactivateApp, params |-> DurationParams(duration)]
            ELSE [endpoint |-> homescreen, params |-> NoParams]

\* the closure selectEndpoint: the endpoint and params it leaves behind
selectEndpoint(timeoutSeconds) ==
    IF ~hasValue(timeoutSeconds)
    THEN [endpoint |-> homescreen, params |-> NoParams]
    ELSE IF ~isNaN(timeoutSeconds)
    THEN LET duration == parseFloat(timeoutSeconds)
         IN IF duration.t = "number" /\ duration.n >= 0
            THEN [endpoint |-> deactivateApp, params |-> DurationParams(duration)]
            ELSE [endpoint |-> homescreen, params |-> NoParams]
    ELSE [endpoint |-> NoEndpoint, params |-> NoParams]

timeoutCandidate_Seconds(secs) ==
    IF Truthy(secs) /\ ~isNumber(secs) /\ secs.hasTimeout
    THEN secs.timeout
    ELSE secs

\* the value background hands to selectEndpoint
timeoutCandidate(secs) ==
    IF Truthy(secs) /\ ~isNumber(secs) /\ secs.hasTimeout
    THEN LET timeout == secs.timeout
         IN IF isNaN(ToNumber(timeout))
            THEN timeout
            ELSE DivideBy1000(ParseFloatString(JsToString(timeout)))
    ELSE secs

\* what background(secs) decides before it proxies anything
resolveBackground(secs) == selectEndpoint(timeoutCandidate(secs))

\* --------------------------------------------- mobilePressButton, mobileSiri
pressButton == "/wda/pressButton"
siriActivate == "/wda/siri/activate"
screen == "/wda/screen"
windowSizeNative == "/window/size"
windowSizeAtom == "atom:get_window_size"

\* this.proxyCommand(endpoint, method, params, isSessionCommand)
Request(endpoint, method, params) ==
    [endpoint |-> endpoint, method |-> method, params |-> params, isSessionCommand |-> "omitted"]

\* ------------------------------------------------------------ getDeviceTime
\* a JavaScript number as Math.abs sees it: FALSE for NaN
AbsAtMost(v, limit) ==
    LET num == ToNumber(v) IN num.t = "number" /\ Abs(num.n) <= limit * 1000

\* _.includes(value, '/'): substring search on strings, no element otherwise
includesSlash(v) == v.t = "string" /\ \E i \in 1..Len(v.s) : v.s[i] = "/"

\* x / 60 ; exact on the whole minutes the model feeds it
DivideBy60(v) ==
    LET num == ToNumber(v) IN IF num.t = "number" THEN JsMilli(num.n \div 60) ELSE JsNaN

\* moment#utcOffset(input) as a setter on a number: the offset, in thousandths
\* of a minute, the moment ends up with. Inputs strictly between -16 and 16
\* are taken as hours.
momentUtcOffset(input) ==
    IF Abs(input.n) < 16 * 1000 THEN input.n * 60 ELSE input.n

\* moment#format(format) of the instant at a fixed offset / in a named zone
FormatAtOffset(instant, offset, format, via) ==
    [kind |-> "formatted", instant |-> instant, offset |-> offset, zone |-> << >>,
     format |-> format, via |-> via]
FormatInZone(instant, zone, format, via) ==
    [kind |-> "formatted", instant |-> instant, offset |-> 0, zone |-> zone,
     format |-> format, via |-> via]
RawOutput(chars) == [kind |-> "raw", text |-> chars]

WarnUnparsable == "Cannot parse the timestamp"
WarnNoOffset == "Did not know how to apply the UTC offset"

deviceTime_ZoneFirst(rd, format) ==
    IF includesSlash(rd.timeZone)
    THEN [value |-> FormatInZone(rd.timestamp, rd.timeZone.s, format, "zone"), warn |-> << >>]
    ELSE IF AbsAtMost(rd.utcOffset, 12 * 60)
    THEN [value |-> FormatAtOffset(rd.timestamp, momentUtcOffset(rd.utcOffset), format, "utcOffset"),
          warn |-> << >>]
    ELSE IF AbsAtMost(rd.timeZone, 12 * 60 * 60)
    THEN [value |-> FormatAtOffset(rd.timestamp, momentUtcOffset(DivideBy60(rd.timeZone)), format,
                                   "timeZoneSeconds"),
          warn |-> << >>]
    ELSE [value |-> FormatAtOffset(rd.timestamp, 0, format, "none"), warn |-> <<WarnNoOffset>>]

\* the physical-device half of getDeviceTime, from the reading on
deviceTime(rd, format) ==
    IF AbsAtMost(rd.utcOffset, 12 * 60)
    THEN [value |-> FormatAtOffset(rd.timestamp, momentUtcOffset(rd.utcOffset), format, "utcOffset"),
          warn |-> << >>]
    ELSE IF includesSlash(rd.timeZone)
    THEN [value |-> FormatInZone(rd.timestamp, rd.timeZone.s, format, "zone"), warn |-> << >>]
    ELSE IF AbsAtMost(rd.timeZone, 12 * 60 * 60)
    THEN [value |-> FormatAtOffset(rd.timestamp, momentUtcOffset(DivideBy60(rd.timeZone)), format,
                                   "timeZoneSeconds"),
          warn |-> << >>]
    ELSE [value |-> FormatAtOffset(rd.timestamp, 0, format, "none"), warn |-> <<WarnNoOffset>>]

simulatorTime_NoTrim(out, parsed, format) ==
    IF ~parsed.valid
    THEN [value |-> RawOutput(out), warn |-> <<WarnUnparsable>>]
    ELSE [value |-> FormatAtOffset(parsed.instant, momentUtcOffset(JsInt(parsed.tzm)), format, "date"),
          warn |-> << >>]

\* the simulator half of getDeviceTime, from the command's output on; parsed
\* is what moment.utc(stdout, inputFormat) made of the trimmed output
simulatorTime(out, parsed, format) ==
    LET trimmed == Trim(out) IN
    IF ~parsed.valid
    THEN [value |-> RawOutput(trimmed), warn |-> <<WarnUnparsable>>]
    ELSE [value |-> FormatAtOffset(parsed.instant, momentUtcOffset(JsInt(parsed.tzm)), format, "date"),
          warn |-> << >>]

\* ----------------------------------------------------------- getViewportRect
MathRoundOfProduct_Floor(a, b) == JsInt((a.n * b.n) \div 1000000)

\* Math.round(a * b): the nearest integer, halves going up
MathRoundOfProduct(a, b) == JsInt((a.n * b.n + 500000) \div 1000000)

\* a * b for an integer a
Times(a, b) == JsMilli((a.n \div 1000) * b.n)
Minus(a, b) == JsMilli(a.n - b.n)

\* the object getViewportRect returns
viewportRect(scl, sbh, size) ==
    [left |-> JsInt(0), top |-> sbh,
     width |-> Times(size.width, scl),
     height |-> Minus(Times(size.height, scl), sbh)]

\* ------------------------------------------------------------------- state
VARIABLES
    pc,               \* where the operation in progress is suspended
    op,               \* the operation in progress, or the last one
    arg,              \* its arguments
    calls,            \* the requests it has issued to its collaborators, in order
    responses,        \* what it has read of the answers received, in order
    pending,          \* requests issued and not yet answered
    outcome,          \* how it ended: returned, or the error it threw
    result,           \* the value it returned
    warns,            \* the warnings it logged
    scale,            \* getViewportRect's local
    statusBarHeight,  \* getViewportRect's local
    execCalls,        \* runs of the local date command
    providerCalls,    \* calls of utilities.getDeviceTime
    realDevice,       \* this.isRealDevice()
    webContext        \* this.isWebContext()

vars == <<pc, op, arg, calls, responses, pending, outcome, result, warns, scale,
          statusBarHeight, execCalls, providerCalls, realDevice, webContext>>

Idle == {"idle", "done"}
Awaiting == {"await_proxy", "vr_scale", "vr_statusBar", "vr_size", "dt_exec", "dt_provider"}

NoOutcome == [kind |-> "none", error |-> ""]
Returned == [kind |-> "returned", error |-> ""]
Thrown(kind, error) == [kind |-> kind, error |-> error]
NoResult == [kind |-> "none"]

\* ------------------------------------------------------------------ inputs
BackgroundNumbers == {JsInt(k) : k \in -MaxSeconds..MaxSeconds} \cup {JsInt(DocTimeoutMs)}
BackgroundStrings ==
    {JsString(<< >>), JsString(<<"a", "b", "c">>), JsString(<<"5">>), JsString(<<"-", "2">>),
     JsString(<<" ", "7">>), JsString(<<"5", "a">>), JsString(<<"0">>)}
Scalars == {JsUndefined, JsNull, JsNaN} \cup BackgroundNumbers \cup BackgroundStrings
BackgroundInputs ==
    {Bare(v) : v \in Scalars} \cup {EmptyObject} \cup {WithTimeout(v) : v \in Scalars}

ButtonNames == {JsUndefined, JsNull, JsString(<< >>), JsString(<<"h", "o", "m", "e">>)}
ButtonDurations == {JsUndefined, JsNull, JsNaN, JsInt(1), JsMilli(500), JsString(<<"1">>)}
SiriTexts == {JsUndefined, JsNull, JsString(<< >>), JsString(<<"h", "i">>)}

Formats == {"YYYY-MM-DDTHH:mm:ssZ", "HH:mm"}
Timestamps == {0, 1700000000}
UtcOffsets == {JsInt(k) : k \in {0, 10, -15, 15, 16, 120, -720, 720, 721, -721, 900}}
EuropeBerlin == <<"E", "u", "r", "o", "p", "e", "/", "B", "e", "r", "l", "i", "n">>
TimeZones ==
    {JsString(EuropeBerlin), JsString(<<"U", "T", "C">>), JsString(<<"3", "6", "0", "0">>),
     JsString(<< >>), JsString(<<"/">>)}
    \cup {JsInt(k) : k \in {0, 600, -900, 960, 3600, -7200, 43200, -43200, 43260, 86400}}
Readings == [timestamp : Timestamps, utcOffset : UtcOffsets, timeZone : TimeZones]

Stdouts == {<<"x", "\n">>, <<"x">>, <<" ", "1", "\n">>, << >>, <<"2", "0", "2", "3", "\n">>}
Parses ==
    {[valid |-> FALSE, instant |-> 0, tzm |-> 0]}
    \cup [valid : {TRUE}, instant : Timestamps, tzm : {0, 10, 60, -480}]

Halves(lo, hi) == {JsMilli(500 * k) : k \in lo..hi}
ScreenInfos ==
    [scale : Halves(1, 2 * MaxLogical), statusBarSize : [height : Halves(0, 2 * MaxLogical)]]
    \cup {[scale |-> JsInt(2), statusBarSize |-> [height |-> JsInt(20)]]}
WindowSizes ==
    {[width |-> JsInt(w), height |-> JsInt(h)] : w \in 0..MaxLogical, h \in 0..MaxLogical}
    \cup {[width |-> JsInt(400), height |-> JsInt(800)]}
Errors == {"ECONNRESET", "timeout"}

\* ----------------------------------------------------------------- actions
Init ==
    /\ pc = "idle"
    /\ op = "none"
    /\ arg = [none |-> TRUE]
    /\ calls = << >>
    /\ responses = << >>
    /\ pending = 0
    /\ outcome = NoOutcome
    /\ result = NoResult
    /\ warns = << >>
    /\ scale = JsUndefined
    /\ statusBarHeight = JsUndefined
    /\ execCalls = 0
    /\ providerCalls = 0
    /\ realDevice \in BOOLEAN
    /\ webContext \in BOOLEAN

\* a new operation starts from a clean slate
Begin(o, a) ==
    /\ pc \in Idle
    /\ op' = o
    /\ arg' = a
    /\ responses' = << >>
    /\ result' = NoResult
    /\ warns' = << >>
    /\ scale' = JsUndefined
    /\ statusBarHeight' = JsUndefined
    /\ UNCHANGED <<realDevice, webContext>>

\* throw new errors.InvalidArgumentError(...) before anything was proxied
ThrowInvalidArgument ==
    /\ pc' = "done"
    /\ calls' = << >>
    /\ pending' = 0
    /\ outcome' = Thrown("InvalidArgumentError", "")

\* return await this.proxyCommand(...), up to the await
Proxy(request) ==
    /\ pc' = "await_proxy"
    /\ calls' = <<request>>
    /\ pending' = 1
    /\ outcome' = NoOutcome

background(seconds) ==
    /\ Begin("background", [seconds |-> seconds])
    /\ LET r == resolveBackground(seconds)
       IN IF r.endpoint = NoEndpoint
          THEN ThrowInvalidArgument
          ELSE Proxy([Request(r.endpoint, "POST", r.params)
                      EXCEPT !.isSessionCommand =
                          IF r.endpoint # homescreen THEN "true" ELSE "false"])
    /\ UNCHANGED <<execCalls, providerCalls>>

mobilePressButton_ProxyFirst(name, durationSeconds) ==
    /\ Begin("mobilePressButton", [name |-> name, durationSeconds |-> durationSeconds])
    /\ IF ~Truthy(name) \/ (~isNil(durationSeconds) /\ ~isNumber(durationSeconds))
       THEN /\ pc' = "done"
            /\ calls' = <<Request(pressButton, "POST",
                            [NoParams EXCEPT !.keys = {"name", "duration"}, !.name = name,
                                             !.duration = durationSeconds])>>
            /\ pending' = 0
            /\ outcome' = Thrown("InvalidArgumentError", "")
       ELSE Proxy(Request(pressButton, "POST",
                          [NoParams EXCEPT !.keys = {"name", "duration"}, !.name = name,
                                           !.duration = durationSeconds]))
    /\ UNCHANGED <<execCalls, providerCalls>>

mobilePressButton(name, durationSeconds) ==
    /\ Begin("mobilePressButton", [name |-> name, durationSeconds |-> durationSeconds])
    /\ IF ~Truthy(name)
       THEN ThrowInvalidArgument
       ELSE IF ~isNil(durationSeconds) /\ ~isNumber(durationSeconds)
       THEN ThrowInvalidArgument
       ELSE Proxy(Request(pressButton, "POST",
                          [NoParams EXCEPT !.keys = {"name", "duration"}, !.name = name,
                                           !.duration = durationSeconds]))
    /\ UNCHANGED <<execCalls, providerCalls>>

mobileSiriCommand(text) ==
    /\ Begin("mobileSiriCommand", [text |-> text])
    /\ IF ~Truthy(text)
       THEN ThrowInvalidArgument
       ELSE Proxy(Request(siriActivate, "POST",
                          [NoParams EXCEPT !.keys = {"text"}, !.text = text]))
    /\ UNCHANGED <<execCalls, providerCalls>>

\* the proxied command of background, mobilePressButton or mobileSiriCommand answers
ProxyReturns ==
    /\ pc = "await_proxy"
    /\ pc' = "done"
    /\ pending' = pending - 1
    /\ responses' = Append(responses, [kind |-> "response"])
    /\ outcome' = Returned
    /\ result' = [kind |-> "response"]
    /\ UNCHANGED <<op, arg, calls, warns, scale, statusBarHeight, execCalls, providerCalls,
                   realDevice, webContext>>

\* an awaited collaborator rejects: nothing catches it
CollaboratorFails(e) ==
    /\ pc \in Awaiting
    /\ pc' = "done"
    /\ pending' = pending - 1
    /\ outcome' = Thrown("RemoteCommandFailure", e)
    /\ UNCHANGED <<op, arg, calls, responses, result, warns, scale, statusBarHeight,
                   execCalls, providerCalls, realDevice, webContext>>

\* getScreenInfo: this.proxyCommand('/wda/screen', 'GET')
getScreenInfo == Request(screen, "GET", NoParams)

\* getWindowSize('current'): the atom in a web context, the proxy otherwise
getWindowSize ==
    IF ~webContext
    THEN Request(windowSizeNative, "GET", NoParams)
    ELSE Request(windowSizeAtom, "execute", NoParams)

getViewportRect_FanOut ==
    /\ Begin("getViewportRect", [none |-> TRUE])
    /\ pc' = "vr_scale"
    /\ calls' = <<getScreenInfo, getScreenInfo, getWindowSize>>
    /\ pending' = 3
    /\ outcome' = NoOutcome
    /\ UNCHANGED <<execCalls, providerCalls>>

\* getViewportRect up to its first await: getDevicePixelRatio -> getScreenInfo
getViewportRect ==
    /\ Begin("getViewportRect", [none |-> TRUE])
    /\ pc' = "vr_scale"
    /\ calls' = <<getScreenInfo>>
    /\ pending' = 1
    /\ outcome' = NoOutcome
    /\ UNCHANGED <<execCalls, providerCalls>>

\* the scale is back; getStatusBarHeight -> getScreenInfo is awaited next
ScaleReturns(info) ==
    /\ pc = "vr_scale"
    /\ scale' = info.scale
    /\ responses' = Append(responses, [scale |-> info.scale])
    /\ calls' = Append(calls, getScreenInfo)
    /\ pc' = "vr_statusBar"
    /\ UNCHANGED <<op, arg, pending, outcome, result, warns, statusBarHeight, execCalls,
                   providerCalls, realDevice, webContext>>

\* the status bar height is back and is scaled; getWindowSize is awaited next
StatusBarReturns(info) ==
    /\ pc = "vr_statusBar"
    /\ statusBarHeight' = MathRoundOfProduct(info.statusBarSize.height, scale)
    /\ responses' = Append(responses, [statusBarSize |-> info.statusBarSize])
    /\ calls' = Append(calls, getWindowSize)
    /\ pc' = "vr_size"
    /\ UNCHANGED <<op, arg, pending, outcome, result, warns, scale, execCalls,
                   providerCalls, realDevice, webContext>>

\* the window size is back: the rectangle is returned
WindowSizeReturns(windowSize) ==
    /\ pc = "vr_size"
    /\ responses' = Append(responses, windowSize)
    /\ pending' = pending - 1
    /\ result' = viewportRect(scale, statusBarHeight, windowSize)
    /\ outcome' = Returned
    /\ pc' = "done"
    /\ UNCHANGED <<op, arg, calls, warns, scale, statusBarHeight, execCalls, providerCalls,
                   realDevice, webContext>>

\* getDeviceTime up to its first await: exec('date', ...) on a simulator,
\* utilities.getDeviceTime(udid) on a real device
getDeviceTime(format) ==
    /\ Begin("getDeviceTime", [format |-> format])
    /\ calls' = << >>
    /\ pending' = 1
    /\ outcome' = NoOutcome
    /\ IF ~realDevice
       THEN pc' = "dt_exec" /\ execCalls' = 1 /\ providerCalls' = 0
       ELSE pc' = "dt_provider" /\ execCalls' = 0 /\ providerCalls' = 1

\* the date command has finished with this stdout
ExecReturns(out, parsed) ==
    /\ pc = "dt_exec"
    /\ LET r == simulatorTime(out, parsed, arg.format)
       IN /\ result' = r.value
          /\ warns' = r.warn
    /\ responses' = Append(responses, [stdout |-> out, valid |-> parsed.valid])
    /\ pending' = pending - 1
    /\ outcome' = Returned
    /\ pc' = "done"
    /\ UNCHANGED <<op, arg, calls, scale, statusBarHeight, execCalls, providerCalls,
                   realDevice, webContext>>

\* the device has answered with its reading
ProviderReturns(rd) ==
    /\ pc = "dt_provider"
    /\ LET r == deviceTime(rd, arg.format)
       IN /\ result' = r.value
          /\ warns' = r.warn
    /\ responses' = Append(responses, rd)
    /\ pending' = pending - 1
    /\ outcome' = Returned
    /\ pc' = "done"
    /\ UNCHANGED <<op, arg, calls, scale, statusBarHeight, execCalls, providerCalls,
                   realDevice, webContext>>

Next ==
    \/ \E seconds \in BackgroundInputs : background(seconds)
    \/ \E name \in ButtonNames, durationSeconds \in ButtonDurations :
          mobilePressButton(name, durationSeconds)
    \/ \E text \in SiriTexts : mobileSiriCommand(text)
    \/ ProxyReturns
    \/ \E e \in Errors : CollaboratorFails(e)
    \/ getViewportRect
    \/ \E info \in ScreenInfos : ScaleReturns(info)
    \/ \E info \in ScreenInfos : StatusBarReturns(info)
    \/ \E windowSize \in WindowSizes : WindowSizeReturns(windowSize)
    \/ \E format \in Formats : getDeviceTime(format)
    \/ \E out \in Stdouts, parsed \in Parses : ExecReturns(out, parsed)
    \/ \E rd \in Readings : ProviderReturns(rd)

Spec == Init /\ [][Next]_vars

\* ------------------------------------------------------------------ claims
\* background has resolved its argument: it is suspended on its proxied
\* command, or has ended
BackgroundDecided == op = "background" /\ pc \in {"await_proxy", "done"}

HomeRequest == [endpoint |-> homescreen, method |-> "POST", params |-> NoParams,
                isSessionCommand |-> "false"]
DeactivateRequest(d) == [endpoint |-> deactivateApp, method |-> "POST",
                         params |-> DurationParams(d), isSessionCommand |-> "true"]

\* the timeout candidate as the specification words it: the timeout field
\* of an object that has one, the raw input otherwise
Candidate(secs) == IF secs.hasTimeout THEN secs.timeout ELSE secs

NonNumeric(c) == c.t \in {"string", "object"} /\ ToNumber(c).t = "NaN"

\* C2 as stated: a present candidate that cannot be coerced to a number is
\* sent to /wda/homescreen once, and no invalid-argument error is raised.
C2_FailsOpen ==
    (BackgroundDecided /\ NonNumeric(Candidate(arg.seconds)))
    => /\ outcome.kind # "InvalidArgumentError"
       /\ calls = <<HomeRequest>>

\* C2 amended: a present candidate that cannot be coerced to a number is
\* rejected with an invalid-argument error, and nothing is sent.
C2_RejectsNonNumeric ==
    (BackgroundDecided /\ NonNumeric(Candidate(arg.seconds)))
    => /\ pc = "done"
       /\ outcome.kind = "InvalidArgumentError"
       /\ calls = << >>
       /\ pending = 0

C2_Witness ==
    /\ BackgroundDecided
    /\ arg.seconds = Bare(JsString(<<"a", "b", "c">>))
    /\ outcome.kind = "InvalidArgumentError"

\* C3 as stated: background({timeout: t}) selects the endpoint and sends the
\* parameters of background(t).
C3_SameAsBare ==
    (BackgroundDecided /\ arg.seconds.hasTimeout)
    => LET bare == resolveBackground(Bare(arg.seconds.timeout))
       IN /\ (outcome.kind = "InvalidArgumentError") <=> (bare.endpoint = NoEndpoint)
          /\ calls # << >> =>
               /\ calls[1].endpoint = bare.endpoint
               /\ calls[1].params = bare.params

\* C3 amended: background({timeout: t}) selects the endpoint of background(t)
\* (or is rejected as background(t) is), and its duration, when there is
\* one, is that of background(t) divided by 1000: t is in milliseconds.
C3_TimeoutInMilliseconds ==
    (BackgroundDecided /\ arg.seconds.hasTimeout)
    => LET t == arg.seconds.timeout
           bare == resolveBackground(Bare(t))
       IN /\ (outcome.kind = "InvalidArgumentError") <=> (bare.endpoint = NoEndpoint)
          /\ Len(calls) = IF bare.endpoint = NoEndpoint THEN 0 ELSE 1
          /\ calls # << >> =>
               /\ calls[1].endpoint = bare.endpoint
               /\ calls[1].params.keys = bare.params.keys
               /\ calls[1].params.duration.t = bare.params.duration.t
               /\ calls[1].params.duration.n * 1000 = bare.params.duration.n
          /\ t.t = "number" =>
               IF t.n >= 0
               THEN calls = <<DeactivateRequest(JsMilli(t.n \div 1000))>>
               ELSE calls = <<HomeRequest>>

C3_Witness ==
    /\ BackgroundDecided
    /\ arg.seconds = WithTimeout(JsInt(DocTimeoutMs))
    /\ calls = <<DeactivateRequest(JsInt(5))>>

\* C4 as stated: background(0) and background({timeout: 0}) go to
\* /wda/homescreen with no duration, like a negative number.
C4_ZeroNeverComesBack ==
    (BackgroundDecided /\ arg.seconds \in {Bare(JsInt(0)), WithTimeout(JsInt(0))})
    => calls = <<HomeRequest>>

\* getDeviceTime has formatted the reading of a physical device
ReadingResolved ==
    op = "getDeviceTime" /\ realDevice /\ pc = "done" /\ responses # << >>

\* the rule of the cascade the claim assigns to a reading
RuleFor(rd) ==
    LET u == rd.utcOffset
        tz == rd.timeZone
        tzNumber == ToNumber(tz)
    IN IF Abs(u.n) <= 720 * 1000 THEN "utcOffset"
       ELSE IF tz.t = "string" /\ (\E i \in DOMAIN tz.s : tz.s[i] = "/") THEN "zone"
       ELSE IF tzNumber.t = "number" /\ Abs(tzNumber.n) <= 43200 * 1000 THEN "timeZoneSeconds"
       ELSE "none"

\* C5: the reading is resolved by the first matching rule of the cascade
\* utcOffset within 12 h of minutes, zone identifier, timeZone within 12 h of
\* seconds, bare UTC with a warning; one rule is applied and nothing is
\* thrown.
C5_Cascade ==
    ReadingResolved
    => LET rd == responses[1]
           rule == RuleFor(rd)
       IN /\ outcome = Returned
          /\ providerCalls = 1 /\ execCalls = 0
          /\ result.kind = "formatted"
          /\ result.instant = rd.timestamp
          /\ result.format = arg.format
          /\ result.via = rule
          /\ rule = "utcOffset" =>
               /\ result.offset \in {rd.utcOffset.n, rd.utcOffset.n * 60}
               /\ result.zone = << >> /\ warns = << >>
          /\ rule = "zone" => result.zone = rd.timeZone.s /\ warns = << >>
          /\ rule = "timeZoneSeconds" =>
               /\ (result.offset * 60 = ToNumber(rd.timeZone).n
                   \/ result.offset = ToNumber(rd.timeZone).n)
               /\ result.zone = << >> /\ warns = << >>
          /\ rule = "none" =>
               /\ result.offset = 0 /\ result.zone = << >>
               /\ warns = <<WarnNoOffset>>

C5_Witness ==
    /\ ReadingResolved
    /\ responses[1].timeZone = JsString(EuropeBerlin)
    /\ responses[1].utcOffset = JsInt(900)
    /\ result.via = "zone"
    /\ result.zone = EuropeBerlin

\* C6 as stated: the offset applied is the reading's offset in minutes:
\* utcOffset itself on the minutes path, timeZone / 60 on the seconds path,
\* small magnitudes included.
C6_OffsetInMinutes ==
    ReadingResolved
    => LET rd == responses[1]
       IN /\ result.via = "utcOffset" => result.offset = rd.utcOffset.n
          /\ result.via = "timeZoneSeconds" => result.offset * 60 = ToNumber(rd.timeZone).n

\* getDeviceTime has ended on a simulator whose date output did not parse
UnparsableOutput ==
    /\ op = "getDeviceTime" /\ ~realDevice /\ pc = "done" /\ responses # << >>
    /\ ~responses[1].valid

IsTrimmed(s, t) ==
    \E i \in 1..(Len(s) + 1), j \in 0..Len(s) :
        /\ t = SubSeq(s, i, j)
        /\ \A k \in 1..Len(s) : (k < i \/ k > j) => s[k] \in WhiteSpace
        /\ t # << >> => t[1] \notin WhiteSpace /\ t[Len(t)] \notin WhiteSpace

ViewportReturned == op = "getViewportRect" /\ pc = "done" /\ outcome = Returned

\* C8: the rectangle is {0, round(b*s), w*s, h*s - round(b*s)}, unclamped,
\* so that top + height = h*s; scale 2, bar 20, window 400x800 give
\* {0, 40, 800, 1560}.
C8_ViewportRect ==
    ViewportReturned
    => LET s == responses[1].scale
           b == responses[2].statusBarSize.height
           w == responses[3].width
           h == responses[3].height
       IN /\ result.left = JsInt(0)
          /\ result.top.t = "number" /\ result.top.n % 1000 = 0
          /\ 1000 * result.top.n - 500000 <= b.n * s.n
          /\ b.n * s.n < 1000 * result.top.n + 500000
          /\ w.n % 1000 = 0 /\ h.n % 1000 = 0
          /\ result.width.n = (w.n \div 1000) * s.n
          /\ result.height.n = (h.n \div 1000) * s.n - result.top.n
          /\ result.top.n + result.height.n = (h.n \div 1000) * s.n
          /\ (s = JsInt(2) /\ b = JsInt(20) /\ w = JsInt(400) /\ h = JsInt(800))
             => result = [left |-> JsInt(0), top |-> JsInt(40), width |-> JsInt(800),
                          height |-> JsInt(1560)]

C8_Witness ==
    /\ ViewportReturned
    /\ responses = <<[scale |-> JsInt(2)], [statusBarSize |-> [height |-> JsInt(20)]],
                     [width |-> JsInt(400), height |-> JsInt(800)]>>
    /\ result.height = JsInt(1560)

ValidButton(a) ==
    /\ a.name.t = "string" /\ a.name.s # << >>
    /\ a.durationSeconds.t \in {"undefined", "null", "number", "NaN"}
ValidText(a) == a.text.t = "string" /\ a.text.s # << >>

\* C9: an operation that raises an invalid-argument error has issued no
\* remote call; mobilePressButton and mobileSiriCommand with valid arguments
\* issue exactly one, carrying the arguments, and reject invalid ones.
C9_FailFast ==
    /\ outcome.kind = "InvalidArgumentError"
       => calls = << >> /\ responses = << >> /\ pending = 0 /\ pc = "done"
    /\ (op = "mobilePressButton" /\ pc # "idle")
       => IF ValidButton(arg)
          THEN /\ outcome.kind # "InvalidArgumentError"
               /\ Len(calls) = 1
               /\ calls[1].endpoint = pressButton /\ calls[1].method = "POST"
               /\ calls[1].params.name = arg.name
               /\ calls[1].params.duration = arg.durationSeconds
          ELSE outcome.kind = "InvalidArgumentError"
    /\ (op = "mobileSiriCommand" /\ pc # "idle")
       => IF ValidText(arg)
          THEN /\ outcome.kind # "InvalidArgumentError"
               /\ Len(calls) = 1
               /\ calls[1].endpoint = siriActivate /\ calls[1].method = "POST"
               /\ calls[1].params.text = arg.text
          ELSE outcome.kind = "InvalidArgumentError"

C9_Witness ==
    /\ op = "mobilePressButton"
    /\ arg.name = JsString(<<"h", "o", "m", "e">>)
    /\ arg.durationSeconds = JsString(<<"1">>)
    /\ outcome.kind = "InvalidArgumentError"
    /\ calls = << >>

IsPrefix(a, b) == Len(a) <= Len(b) /\ a = SubSeq(b, 1, Len(a))

\* C10: getViewportRect asks for the scale, then the status bar height, then
\* the window size, each only after the previous answer; after a failure
\* nothing more is asked and the failure is the operation's outcome.
C10_Sequential ==
    op = "getViewportRect"
    => /\ pending <= 1
       /\ calls # << >>
       /\ IsPrefix(calls, <<getScreenInfo, getScreenInfo, getWindowSize>>)
       /\ Len(responses) = Len(calls) - pending
          \/ (outcome.kind = "RemoteCommandFailure" /\ Len(responses) = Len(calls) - 1)
       /\ Len(calls) >= 2 => scale = responses[1].scale
       /\ Len(calls) >= 3 => statusBarHeight.t = "number"
       /\ pc = "done" <=> pending = 0
       /\ outcome.kind = "RemoteCommandFailure" => pc = "done" /\ outcome.error \in Errors
       /\ outcome.kind = "returned" => Len(calls) = 3 /\ Len(responses) = 3

C10_Witness ==
    /\ op = "getViewportRect"
    /\ outcome.kind = "RemoteCommandFailure"
    /\ Len(calls) = 2
    /\ Len(responses) = 1

====
